---- MODULE Spec2Model ----
(***************************************************************************)
(* Model of updated_code.py: the /run dispatcher, the gateway client       *)
(* query_gpt and the four registered file tools, over a small filesystem.  *)
(* Text is a sequence of one-character strings.                            *)
(***************************************************************************)
EXTENDS Integers, Sequences, FiniteSets, TLC

VARIABLES fs, AIPROXY_Token, pc, task, query, idx, response, loop,
          gatewayCalls, toolInvocations, step, result

vars == <<fs, AIPROXY_Token, pc, task, query, idx, response, loop,
          gatewayCalls, toolInvocations, step, result>>

(***************************************************************************)
(* Bounds                                                                  *)
(***************************************************************************)
MaxContacts == 3
MaxLogFiles == 12
MaxToolCalls == 2
NumRequests == 2

(***************************************************************************)
(* Text helpers: str.strip, str.lower, str.startswith, str ordering        *)
(***************************************************************************)
Min(a, b) == IF a < b THEN a ELSE b

\* code point of a character (ord)
Ord(c) ==
  CASE c = "\n" -> 10
    [] c = " " -> 32
    [] c = "#" -> 35
    [] c = "A" -> 65
    [] c = "B" -> 66
    [] c = "T" -> 84
    [] c = "a" -> 97
    [] c = "b" -> 98
    [] c = "t" -> 116
    [] c = "x" -> 120

\* str.lower on one character
LowerChar(c) ==
  CASE c = "A" -> "a"
    [] c = "B" -> "b"
    [] c = "T" -> "t"
    [] OTHER -> c

lower(s) == [i \in 1..Len(s) |-> LowerChar(s[i])]

IsSpace(c) == c \in {" ", "\n"}

RECURSIVE LStrip(_)
LStrip(s) == IF s # <<>> /\ IsSpace(Head(s)) THEN LStrip(Tail(s)) ELSE s

RECURSIVE RStrip(_)
RStrip(s) ==
  IF s # <<>> /\ IsSpace(s[Len(s)]) THEN RStrip(SubSeq(s, 1, Len(s) - 1)) ELSE s

\* str.strip()
strip(s) == RStrip(LStrip(s))

\* s.startswith(p)
startswith(s, p) == Len(s) >= Len(p) /\ SubSeq(s, 1, Len(p)) = p

\* Python's < on str: lexicographic by code point, a proper prefix is smaller
RECURSIVE StrLess(_, _)
StrLess(s, t) ==
  IF t = <<>> THEN FALSE
  ELSE IF s = <<>> THEN TRUE
  ELSE IF Ord(Head(s)) # Ord(Head(t)) THEN Ord(Head(s)) < Ord(Head(t))
  ELSE StrLess(Tail(s), Tail(t))

(***************************************************************************)
(* Filesystem                                                              *)
(***************************************************************************)
Paths == {"contacts.json", "logs", "dates.txt", "docs", "data",
          "data/index.json", "out.txt", "out2.txt", "nodir/out.txt", "missing"}

\* a path whose parent directory does not exist cannot be opened for writing
Writable(f, p) ==
  CASE p = "nodir/out.txt" -> FALSE
    [] p = "data/index.json" -> f["data"].kind = "dir" /\ f[p].kind # "dir"
    [] OTHER -> f[p].kind # "dir"

NoFile == [kind |-> "absent", contacts |-> <<>>, lines |-> <<>>,
           entries |-> <<>>, count |-> 0]
ContactsFile(cs) == [kind |-> "contacts", contacts |-> cs, lines |-> <<>>,
                     entries |-> <<>>, count |-> 0]
TextFile(ls) == [kind |-> "text", contacts |-> <<>>, lines |-> ls,
                 entries |-> <<>>, count |-> 0]
DatesFile(ds) == [kind |-> "dates", contacts |-> <<>>, lines |-> <<>>,
                  entries |-> ds, count |-> 0]
CountFile(n) == [kind |-> "count", contacts |-> <<>>, lines |-> <<>>,
                 entries |-> <<>>, count |-> n]
IndexFile(ix) == [kind |-> "index", contacts |-> <<>>, lines |-> <<>>,
                  entries |-> ix, count |-> 0]
Dir(es) == [kind |-> "dir", contacts |-> <<>>, lines |-> <<>>,
            entries |-> es, count |-> 0]

\* os.path.exists
exists(f, p) == f[p].kind # "absent"

\* os.path.exists of a path written with a trailing slash ("data/"): true
\* only when the path is a directory
exists_dir(f, p) == f[p].kind = "dir"

(***************************************************************************)
(* Tool outcomes                                                           *)
(***************************************************************************)
\* detail is the message as a tuple of its parts
Raise(cls, status, detail) ==
  [kind |-> "raise", cls |-> cls, status |-> status, detail |-> detail]
Return(what) == [kind |-> "return", cls |-> what, status |-> 200, detail |-> <<>>]
None == [kind |-> "none", cls |-> "none", status |-> 0, detail |-> <<>>]

Outcome(f, r) == [fs |-> f, result |-> r]

(***************************************************************************)
(* sort_contacts                                                           *)
(***************************************************************************)
\* dict.get(k, default)
Get(c, k, default) == IF k \in DOMAIN c THEN c[k] ELSE default

\* key=lambda c: (c.get("last_name", "").lower(), c.get("first_name", "").lower())
ContactKey(c) ==
  <<lower(Get(c, "last_name", <<>>)), lower(Get(c, "first_name", <<>>))>>

\* tuple comparison of two keys
KeyLess(k1, k2) ==
  IF k1[1] # k2[1] THEN StrLess(k1[1], k2[1]) ELSE StrLess(k1[2], k2[2])

\* mutant: inserts c in front of elements with an equal key
RECURSIVE InsertContactUnstable(_, _)
InsertContactUnstable(sorted, c) ==
  IF sorted = <<>> THEN <<c>>
  ELSE IF ~KeyLess(ContactKey(Head(sorted)), ContactKey(c))
       THEN <<c>> \o sorted
       ELSE <<Head(sorted)>> \o InsertContactUnstable(Tail(sorted), c)

\* insert c behind every element whose key is not greater (stable)
RECURSIVE InsertContact(_, _)
InsertContact(sorted, c) ==
  IF sorted = <<>> THEN <<c>>
  ELSE IF KeyLess(ContactKey(c), ContactKey(Head(sorted)))
       THEN <<c>> \o sorted
       ELSE <<Head(sorted)>> \o InsertContact(Tail(sorted), c)

RECURSIVE SortFrom(_, _)
SortFrom(sorted, rest) ==
  IF rest = <<>> THEN sorted
  ELSE SortFrom(InsertContact(sorted, Head(rest)), Tail(rest))

\* contacts.sort(key=...)
SortContactList(cs) == SortFrom(<<>>, cs)

sort_contacts(f, input_location, output_location) ==
  IF ~exists(f, input_location)
  THEN Outcome(f, Raise("HTTPException", 404, <<"Input file does not exist", input_location>>))
  ELSE IF f[input_location].kind # "contacts" \/ ~Writable(f, output_location)
  THEN Outcome(f, Raise("HTTPException", 500, <<"Error sorting contacts">>))
  ELSE Outcome([f EXCEPT ![output_location] =
                  ContactsFile(SortContactList(f[input_location].contacts))],
               Return("ToolResult"))

(***************************************************************************)
(* write_recent_log_lines                                                  *)
(***************************************************************************)
RecentLimit == 10

\* a directory entry: file number, Path.suffix, st_mtime, decoded content
Entry(n, sfx, mt, c) == [name |-> n, suffix |-> sfx, mtime |-> mt, content |-> c]

\* index of the first newline of c, or Len(c) + 1
RECURSIVE NewlineAt(_, _)
NewlineAt(c, i) ==
  IF i > Len(c) \/ c[i] = "\n" THEN i ELSE NewlineAt(c, i + 1)

\* file.readline(): up to and including the first newline
readline(c) == SubSeq(c, 1, Min(NewlineAt(c, 1), Len(c)))

\* Path(d).glob("*" + sfx): entries of a directory with that suffix, in
\* listing order; nothing when d is not a directory
glob(f, d, sfx) ==
  IF f[d].kind = "dir" THEN SelectSeq(f[d].entries, LAMBDA e : e.suffix = sfx)
  ELSE <<>>

\* insert e behind every element whose st_mtime is not smaller
RECURSIVE InsertByMtime(_, _)
InsertByMtime(sorted, e) ==
  IF sorted = <<>> THEN <<e>>
  ELSE IF Head(sorted).mtime < e.mtime
       THEN <<e>> \o sorted
       ELSE <<Head(sorted)>> \o InsertByMtime(Tail(sorted), e)

RECURSIVE SortByMtimeFrom(_, _)
SortByMtimeFrom(sorted, rest) ==
  IF rest = <<>> THEN sorted
  ELSE SortByMtimeFrom(InsertByMtime(sorted, Head(rest)), Tail(rest))

\* sorted(files, key=lambda f: f.stat().st_mtime, reverse=True)
SortByMtimeDesc(es) == SortByMtimeFrom(<<>>, es)

\* mutant: no [:10] slice
RecentLogFilesAll(f, input_location) ==
  SortByMtimeDesc(glob(f, input_location, ".log"))

\* sorted(Path(input_location).glob("*.log"), ..., reverse=True)[:10]
RecentLogFiles(f, input_location) ==
  LET s == SortByMtimeDesc(glob(f, input_location, ".log"))
  IN SubSeq(s, 1, Min(RecentLimit, Len(s)))

\* first_line = file.readline().strip(); output_file.write(first_line + "\n")
WrittenLine(e) == strip(readline(e.content)) \o <<"\n">>

write_recent_log_lines(f, input_location, output_location) ==
  IF ~exists(f, input_location)
  THEN Outcome(f, Raise("HTTPException", 404, <<"Logs directory does not exist", input_location>>))
  ELSE IF ~Writable(f, output_location)
  THEN Outcome(f, Raise("HTTPException", 500, <<"Error processing log files">>))
  ELSE LET log_files == RecentLogFiles(f, input_location)
       IN Outcome([f EXCEPT ![output_location] =
                     TextFile([i \in 1..Len(log_files) |-> WrittenLine(log_files[i])])],
                  Return("ToolResult"))

(***************************************************************************)
(* count_wednesdays                                                        *)
(***************************************************************************)
\* A line of a dates file is its textual layout and the numbers in it.
DateLine(layout, y, m, d) == [layout |-> layout, y |-> y, m |-> m, d |-> d]

DATE_FORMATS == <<"%Y-%m-%d", "%d-%b-%Y", "%Y/%m/%d %H:%M:%S", "%b %d, %Y", "%Y/%m/%d">>

IsLeap(y) == y % 4 = 0 /\ (y % 100 # 0 \/ y % 400 = 0)

DaysInMonth(y, m) ==
  CASE m \in {1, 3, 5, 7, 8, 10, 12} -> 31
    [] m \in {4, 6, 9, 11} -> 30
    [] OTHER -> IF IsLeap(y) THEN 29 ELSE 28

RECURSIVE DaysBeforeMonth(_, _)
DaysBeforeMonth(y, m) ==
  IF m = 1 THEN 0 ELSE DaysBeforeMonth(y, m - 1) + DaysInMonth(y, m - 1)

\* date.toordinal()
ToOrdinal(y, m, d) ==
  (y - 1) * 365 + (y - 1) \div 4 - (y - 1) \div 100 + (y - 1) \div 400
  + DaysBeforeMonth(y, m) + d

\* date.weekday(): Monday is 0
weekday(dt) == (ToOrdinal(dt.y, dt.m, dt.d) + 6) % 7

\* datetime.strptime(line.strip(), fmt) succeeds: the text has the layout of
\* fmt and names a date datetime can hold (years 1 to 9999)
Strptime(line, fmt) ==
  /\ line.layout = fmt
  /\ line.y \in 1..9999
  /\ line.m \in 1..12
  /\ line.d \in 1..DaysInMonth(line.y, line.m)

\* parse_date: the first format that matches, else None
parse_date(line) == \E i \in 1..Len(DATE_FORMATS) : Strptime(line, DATE_FORMATS[i])

\* lines of an opened regular file read as dates
DateLinesOf(file) == IF file.kind = "dates" THEN file.entries ELSE <<>>

WednesdayCount(dates) ==
  Cardinality({i \in 1..Len(dates) : parse_date(dates[i]) /\ weekday(dates[i]) = 2})

count_wednesdays(f, input_location, output_location) ==
  IF ~exists(f, input_location)
  THEN Outcome(f, Raise("HTTPException", 404, <<"Input file does not exist", input_location>>))
  ELSE IF f[input_location].kind = "dir" \/ ~Writable(f, output_location)
  THEN Outcome(f, Raise("HTTPException", 500, <<"Error processing dates">>))
  ELSE Outcome([f EXCEPT ![output_location] =
                  CountFile(WednesdayCount(DateLinesOf(f[input_location])))],
               Return("ToolResult"))

(***************************************************************************)
(* generate_markdown_index                                                 *)
(***************************************************************************)
\* for line in file: the lines of c, each with its newline
RECURSIVE LinesOf(_)
LinesOf(c) ==
  IF c = <<>> THEN <<>>
  ELSE LET l == readline(c)
       IN <<l>> \o LinesOf(SubSeq(c, Len(l) + 1, Len(c)))

\* index of the first line starting with "# ", 0 when there is none
RECURSIVE FirstH1(_, _)
FirstH1(ls, i) ==
  IF i > Len(ls) THEN 0
  ELSE IF startswith(ls[i], <<"#", " ">>) THEN i
  ELSE FirstH1(ls, i + 1)

\* index[md_file.name] = line[2:].strip()
RECURSIVE BuildIndex(_, _)
BuildIndex(index, mds) ==
  IF mds = <<>> THEN index
  ELSE LET e == Head(mds)
           ls == LinesOf(e.content)
           h == FirstH1(ls, 1)
           title == strip(SubSeq(ls[h], 3, Len(ls[h])))
           at == {i \in 1..Len(index) : index[i].name = e.name}
           next == IF h = 0 THEN index
                   ELSE IF at = {} THEN Append(index, [name |-> e.name, title |-> title])
                   ELSE [i \in 1..Len(index) |->
                           IF i \in at THEN [name |-> e.name, title |-> title]
                           ELSE index[i]]
       IN BuildIndex(next, Tail(mds))

generate_markdown_index(f, input_location, output_location) ==
  LET docs_dir == "data"
      output_path == "data/index.json"
  IN IF ~exists_dir(f, docs_dir)
     THEN Outcome(f, Raise("HTTPException", 404, <<"Docs directory does not exist", docs_dir>>))
     ELSE IF ~Writable(f, output_path)
     THEN Outcome(f, Raise("OSError", 0, <<output_path>>))
     ELSE Outcome([f EXCEPT ![output_path] =
                     IndexFile(BuildIndex(<<>>, glob(f, docs_dir, ".md")))],
                  Return("ToolResult"))

(***************************************************************************)
(* Idle values of the dispatcher state                                     *)
(***************************************************************************)
Requests == 1..NumRequests

NoQuery == [kind |-> "none", choices |-> "missing", first |-> "dict",
            message |-> "missing", tool_calls |-> "missing", items |-> <<>>]

DispatcherIdle ==
  /\ AIPROXY_Token = TRUE
  /\ pc = [r \in Requests |-> "idle"]
  /\ task = [r \in Requests |-> <<>>]
  /\ query = [r \in Requests |-> NoQuery]
  /\ idx = [r \in Requests |-> 0]
  /\ response = [r \in Requests |-> None]
  /\ loop = 0
  /\ gatewayCalls = [r \in Requests |-> 0]
  /\ toolInvocations = [r \in Requests |-> 0]

dispatcherVars == <<AIPROXY_Token, pc, task, query, idx, response, loop,
                    gatewayCalls, toolInvocations>>

EmptyFs == [p \in Paths |-> NoFile]

(***************************************************************************)
(* SpecSort: sort_contacts applied to a contact list, then to its output   *)
(***************************************************************************)
Names == {<<"b">>, <<"B">>, <<"a", "b">>}
Contacts == UNION {[K -> Names] : K \in SUBSET {"last_name", "first_name"}}
ContactLists == UNION {[1..n -> Contacts] : n \in 0..MaxContacts}

InitSort ==
  /\ DispatcherIdle
  /\ step = 0
  /\ result = None
  /\ \E cs \in ContactLists : fs = [EmptyFs EXCEPT !["contacts.json"] = ContactsFile(cs)]

\* sort_contacts("contacts.json", "out.txt")
SortOnce ==
  /\ step = 0
  /\ LET o == sort_contacts(fs, "contacts.json", "out.txt")
     IN fs' = o.fs /\ result' = o.result
  /\ step' = 1
  /\ UNCHANGED dispatcherVars

\* sort_contacts on its own output: sort_contacts("out.txt", "out2.txt")
SortAgain ==
  /\ step = 1
  /\ LET o == sort_contacts(fs, "out.txt", "out2.txt")
     IN fs' = o.fs /\ result' = o.result
  /\ step' = 2
  /\ UNCHANGED dispatcherVars

NextSort == SortOnce \/ SortAgain

SpecSort == InitSort /\ [][NextSort]_vars

\* position of element j of cs in a stable ascending sort by key
Rank(cs, j) ==
  Cardinality({k \in 1..Len(cs) : KeyLess(ContactKey(cs[k]), ContactKey(cs[j]))})
  + Cardinality({k \in 1..(j - 1) : ContactKey(cs[k]) = ContactKey(cs[j])})
  + 1

\* C8: sort_contacts writes the input contacts in stable ascending order of
\* the lower-cased (last_name, first_name) key, absent names counting as "":
\* element j of the input lands at its stable rank, the output is ordered,
\* and sorting the output again writes the same list.
C8_SortStableIdempotent ==
  /\ step >= 1 =>
       LET cin == fs["contacts.json"].contacts
           cout == fs["out.txt"].contacts
       IN /\ result.kind = "return"
          /\ fs["out.txt"].kind = "contacts"
          /\ Len(cout) = Len(cin)
          /\ \A j \in 1..Len(cin) : cout[Rank(cin, j)] = cin[j]
          /\ \A i, j \in 1..Len(cout) :
               i < j => ~KeyLess(ContactKey(cout[j]), ContactKey(cout[i]))
  /\ step = 2 => fs["out2.txt"] = fs["out.txt"]

\* an unsorted input holding two different contacts with the same key and a
\* contact without last_name has been sorted twice
C8_Witness ==
  /\ step = 2
  /\ LET cin == fs["contacts.json"].contacts
     IN /\ cin # fs["out.txt"].contacts
        /\ \E i, j \in 1..Len(cin) :
              /\ i < j /\ cin[i] # cin[j]
              /\ ContactKey(cin[i]) = ContactKey(cin[j])
        /\ \E i \in 1..Len(cin) : "last_name" \notin DOMAIN cin[i]

(***************************************************************************)
(* SpecLogs: write_recent_log_lines applied to a log directory             *)
(***************************************************************************)
LogContents == << <<>>, <<"x", "\n">>, <<" ", "x", " ", "\n", "b">>,
                  <<"\n", "x">>, <<" ", "\n">>, <<"a">> >>

\* entry i of an n-entry directory under suffix pattern sp, mtime pattern mp
\* and content offset co
LogEntry(i, n, sp, mp, co) ==
  Entry(i,
        IF (sp = 1 /\ i % 3 = 0) \/ (sp = 2 /\ i = 1) THEN ".txt" ELSE ".log",
        CASE mp = 0 -> i
          [] mp = 1 -> n - i + 1
          [] OTHER -> (i * 3) % 5,
        LogContents[((i + co) % Len(LogContents)) + 1])

LogDirs ==
  {[i \in 1..n |-> LogEntry(i, n, sp, mp, co)] :
     n \in 0..MaxLogFiles, sp \in 0..2, mp \in 0..2, co \in 0..2}

InitLogs ==
  /\ DispatcherIdle
  /\ step = 0
  /\ result = None
  /\ \E es \in LogDirs : fs = [EmptyFs EXCEPT !["logs"] = Dir(es)]

\* write_recent_log_lines("logs", "out.txt")
WriteRecent ==
  /\ step = 0
  /\ LET o == write_recent_log_lines(fs, "logs", "out.txt")
     IN fs' = o.fs /\ result' = o.result
  /\ step' = 1
  /\ UNCHANGED dispatcherVars

NextLogs == WriteRecent

SpecLogs == InitLogs /\ [][NextLogs]_vars

\* listing positions of the .log files of a directory
LogIndices(es) == {i \in 1..Len(es) : es[i].suffix = ".log"}

\* position of entry j among the .log files by descending modification time
LogRank(es, j) ==
  Cardinality({k \in LogIndices(es) : es[k].mtime > es[j].mtime})
  + Cardinality({k \in LogIndices(es) : k < j /\ es[k].mtime = es[j].mtime})
  + 1

\* t is the first line of c without its surrounding whitespace
IsTrimmedFirstLine(t, c) ==
  LET p == CHOOSE q \in 0..Len(c) :
             /\ \A i \in 1..q : c[i] # "\n"
             /\ q = Len(c) \/ c[q + 1] = "\n"
  IN /\ t # <<>> => t[1] # " " /\ t[Len(t)] # " "
     /\ \A i \in 1..Len(t) : t[i] # "\n"
     /\ \E a \in 0..(p - Len(t)) :
          /\ SubSeq(c, a + 1, a + Len(t)) = t
          /\ \A i \in (1..a) \cup ((a + Len(t) + 1)..p) : c[i] = " "

FUNCTIONS == {"sort_contacts", "write_recent_log_lines",
              "generate_markdown_index", "count_wednesdays"}

NoKey == "<no key>"
NoArgs == [k \in {} |-> "missing"]

ToolCall(fn, name, form, args) ==
  [function |-> fn, name |-> name, form |-> form, args |-> args]

InPaths == {"contacts.json", "logs", "dates.txt", "docs", "missing"}
OutPaths == {"out.txt", "nodir/out.txt"}

\* decoded argument objects
DictArgs ==
  {[input_location |-> i, output_location |-> o] : i \in InPaths, o \in OutPaths}
  \cup {[input_location |-> "contacts.json"],
        [input_location |-> "logs", output_location |-> "out.txt", extra |-> "docs"]}

\* the arguments string: key absent, not JSON, JSON that is no object, object
Arguments ==
  {<<"dict", a>> : a \in DictArgs}
  \cup {<<"absent", NoArgs>>, <<"malformed", NoArgs>>, <<"nondict", NoArgs>>}

FirstCalls ==
  {ToolCall("dict", n, a[1], a[2]) :
     n \in FUNCTIONS \cup {"delete_files", NoKey}, a \in Arguments}
  \cup {ToolCall("missing", NoKey, "absent", NoArgs)}

LaterCalls ==
  {ToolCall("dict", "count_wednesdays", "dict",
            [input_location |-> "dates.txt", output_location |-> "out.txt"])}

ToolCallLists ==
  {<<>>} \cup
  UNION {{<<c>> \o rest : c \in FirstCalls, rest \in [1..n -> LaterCalls]} :
           n \in 0..(MaxToolCalls - 1)}

Query(kind, choices, first, message, tool_calls, items) ==
  [kind |-> kind, choices |-> choices, first |-> first, message |-> message,
   tool_calls |-> tool_calls, items |-> items]

\* JSON bodies of a gateway reply
Queries ==
  {Query("other", "missing", "dict", "missing", "missing", <<>>)}
  \cup {Query("dict", c, "dict", "missing", "missing", <<>>) :
          c \in {"missing", "null", "empty"}}
  \cup {Query("dict", "list", "other", "missing", "missing", <<>>)}
  \cup {Query("dict", "list", "dict", m, "missing", <<>>) : m \in {"missing", "null"}}
  \cup {Query("dict", "list", "dict", "dict", t, <<>>) : t \in {"missing", "null"}}
  \cup {Query("dict", "list", "dict", "dict", "list", l) : l \in ToolCallLists}

Tasks == {<<>>, <<" ", "\n">>, <<" ", "t", " ">>}

(***************************************************************************)
(* query_gpt                                                               *)
(***************************************************************************)
GatewayFailures == {"network failure", "error status", "body is not JSON"}

\* the credential check before the request is sent
query_gpt_token(token) ==
  IF ~token
  THEN Raise("HTTPException", 500, <<"AIPROXY_TOKEN environment variable is missing">>)
  ELSE None

\* the handlers around requests.post, raise_for_status and response.json
query_gpt_reply(outcome) ==
  IF outcome \in GatewayFailures
  THEN Raise("HTTPException", 500, <<"GPT API error", outcome>>)
  ELSE Return("json")

(***************************************************************************)
(* run                                                                     *)
(***************************************************************************)
\* mutant: the task is tested without strip()
TaskIsEmptyNoStrip(t) == t = <<>>

\* task = task_request.task.strip(); if not task
TaskIsEmpty(t) == strip(t) = <<>>

\* query.get("choices", [{}])[0].get("message", {}).get("tool_calls", [])
ExtractToolCalls(q) ==
  IF q.kind # "dict" THEN [error |-> "AttributeError", tool_calls |-> <<>>]
  ELSE IF q.choices = "missing" THEN [error |-> "", tool_calls |-> <<>>]
  ELSE IF q.choices = "null" THEN [error |-> "TypeError", tool_calls |-> <<>>]
  ELSE IF q.choices = "empty" THEN [error |-> "IndexError", tool_calls |-> <<>>]
  ELSE IF q.first # "dict" THEN [error |-> "AttributeError", tool_calls |-> <<>>]
  ELSE IF q.message = "missing" THEN [error |-> "", tool_calls |-> <<>>]
  ELSE IF q.message = "null" THEN [error |-> "AttributeError", tool_calls |-> <<>>]
  ELSE IF q.tool_calls \in {"missing", "null"} THEN [error |-> "", tool_calls |-> <<>>]
  ELSE [error |-> "", tool_calls |-> q.items]

\* func(**arguments) for the registered function of that name
CallFunction(f, name, args) ==
  IF DOMAIN args # {"input_location", "output_location"}
  THEN [fs |-> f, result |-> Raise("TypeError", 0, <<name>>), invoked |-> 0]
  ELSE LET i == args["input_location"]
           o == args["output_location"]
           out == CASE name = "sort_contacts" -> sort_contacts(f, i, o)
                    [] name = "write_recent_log_lines" -> write_recent_log_lines(f, i, o)
                    [] name = "generate_markdown_index" -> generate_markdown_index(f, i, o)
                    [] name = "count_wednesdays" -> count_wednesdays(f, i, o)
       IN [fs |-> out.fs, result |-> out.result, invoked |-> 1]

\* str(e) of a caught exception: "<status>: <detail>" for an HTTPException,
\* the exception's own text otherwise
ExceptionText(e) ==
  IF e.cls = "HTTPException" THEN <<ToString(e.status)>> \o e.detail ELSE e.detail

\* try: output = func(**arguments); return output
\* except Exception as e: raise HTTPException(500, f"Error calling function: {e}")
Invoke(f, name, args) ==
  LET c == CallFunction(f, name, args)
  IN IF c.result.kind = "raise"
     THEN [c EXCEPT !.result =
             Raise("HTTPException", 500,
                   <<"Error calling function">> \o ExceptionText(c.result))]
     ELSE c

\* mutant: an unknown function is skipped and the loop goes on
ToolCallBodySkipUnknown(f, tool_call) ==
  IF tool_call.function = "missing" \/ tool_call.name = NoKey
  THEN [fs |-> f, result |-> Raise("KeyError", 0, <<>>), invoked |-> 0]
  ELSE IF tool_call.form = "malformed"
  THEN [fs |-> f, result |-> Raise("HTTPException", 400, <<"Invalid JSON arguments">>),
        invoked |-> 0]
  ELSE IF tool_call.name \in FUNCTIONS
  THEN IF tool_call.form = "nondict"
       THEN [fs |-> f, invoked |-> 0,
             result |-> Raise("HTTPException", 500, <<"Error calling function", tool_call.name>>)]
       ELSE Invoke(f, tool_call.name, tool_call.args)
  ELSE [fs |-> f, result |-> None, invoked |-> 0]

\* one pass of the body of "for tool_call in tool_calls"; a result of None
\* means the body fell through to the next iteration
ToolCallBody(f, tool_call) ==
  IF tool_call.function = "missing" \/ tool_call.name = NoKey
  THEN [fs |-> f, result |-> Raise("KeyError", 0, <<>>), invoked |-> 0]
  ELSE IF tool_call.form = "malformed"
  THEN [fs |-> f, result |-> Raise("HTTPException", 400, <<"Invalid JSON arguments">>),
        invoked |-> 0]
  ELSE IF tool_call.name \in FUNCTIONS
  THEN IF tool_call.form = "nondict"
       THEN [fs |-> f, invoked |-> 0,
             result |-> Raise("HTTPException", 500, <<"Error calling function", tool_call.name>>)]
       ELSE Invoke(f, tool_call.name, tool_call.args)
  ELSE [fs |-> f, invoked |-> 0,
        result |-> Raise("HTTPException", 400, <<"Function not found", tool_call.name>>)]

\* mutant: every exception of the try block becomes the generic 500
run_except_all(r) ==
  IF r.kind = "raise"
  THEN Raise("HTTPException", 500, <<"An unexpected error occurred.">>)
  ELSE r

\* mutant: no handler for other exceptions
run_except_none(r) == r

\* except HTTPException: raise
\* except Exception: raise HTTPException(500, "An unexpected error occurred.")
run_except(r) ==
  IF r.kind = "raise" /\ r.cls # "HTTPException"
  THEN Raise("HTTPException", 500, <<"An unexpected error occurred.">>)
  ELSE r

(***************************************************************************)
(* Spec: requests served by the one event loop of the application          *)
(***************************************************************************)
InitContacts ==
  << [last_name |-> <<"b">>, first_name |-> <<"B">>],
     [first_name |-> <<"a", "b">>],
     [last_name |-> <<"B">>, first_name |-> <<"a">>] >>

InitLogEntries ==
  << Entry(1, ".log", 1, <<"x", "\n">>),
     Entry(2, ".log", 3, <<>>),
     Entry(3, ".txt", 2, <<"a">>) >>

InitDates ==
  << DateLine("%Y-%m-%d", 2023, 1, 4),
     DateLine("not-a-date", 0, 0, 0),
     DateLine("%Y/%m/%d", 2023, 1, 11),
     DateLine("%Y-%m-%d", 2023, 2, 30),
     DateLine("%d-%b-%Y", 2023, 1, 5),
     DateLine("%d/%m/%Y", 2023, 1, 4) >>

InitDocs ==
  << Entry(1, ".md", 1, <<"#", " ", "T", "\n">>),
     Entry(2, ".md", 1, <<"x", "\n">>) >>

InitData ==
  << Entry(3, ".md", 1, <<"x", "\n", "#", " ", "a", " ", "\n", "#", " ", "b">>),
     Entry(4, ".txt", 1, <<"#", " ", "x">>) >>

InitFs ==
  [EmptyFs EXCEPT !["contacts.json"] = ContactsFile(InitContacts),
                  !["logs"] = Dir(InitLogEntries),
                  !["dates.txt"] = DatesFile(InitDates),
                  !["docs"] = Dir(InitDocs),
                  !["data"] = Dir(InitData)]

Init ==
  /\ fs \in {InitFs, [InitFs EXCEPT !["data"] = NoFile]}
  /\ AIPROXY_Token \in BOOLEAN
  /\ pc = [r \in Requests |-> "idle"]
  /\ task = [r \in Requests |-> <<>>]
  /\ query = [r \in Requests |-> NoQuery]
  /\ idx = [r \in Requests |-> 0]
  /\ response = [r \in Requests |-> None]
  /\ loop = 0
  /\ gatewayCalls = [r \in Requests |-> 0]
  /\ toolInvocations = [r \in Requests |-> 0]
  /\ step = 0
  /\ result = None

\* run has returned or raised: the response of the request is fixed and the
\* event loop is free for the next coroutine
Finish(r, resp) ==
  /\ response' = [response EXCEPT ![r] = resp]
  /\ pc' = [pc EXCEPT ![r] = "done"]
  /\ loop' = 0

\* a POST /run with body {"task": t} reaches the server
Arrive(r) ==
  /\ pc[r] = "idle"
  /\ \E t \in Tasks : task' = [task EXCEPT ![r] = t]
  /\ pc' = [pc EXCEPT ![r] = "pending"]
  /\ UNCHANGED <<fs, AIPROXY_Token, query, idx, response, loop, gatewayCalls,
                 toolInvocations, step, result>>

\* the event loop starts the coroutine run(task_request); run has no await,
\* so the loop runs nothing else until run returns or raises
Begin(r) ==
  /\ pc[r] = "pending"
  /\ loop = 0
  /\ loop' = r
  /\ pc' = [pc EXCEPT ![r] = "validate"]
  /\ UNCHANGED <<fs, AIPROXY_Token, task, query, idx, response, gatewayCalls,
                 toolInvocations, step, result>>

Validate(r) ==
  /\ pc[r] = "validate"
  /\ IF TaskIsEmpty(task[r])
     THEN Finish(r, Raise("HTTPException", 400, <<"Task cannot be empty">>))
     ELSE pc' = [pc EXCEPT ![r] = "query"] /\ UNCHANGED <<response, loop>>
  /\ UNCHANGED <<fs, AIPROXY_Token, task, query, idx, gatewayCalls,
                 toolInvocations, step, result>>

\* query_gpt up to the point where requests.post is waiting for the gateway
CallGateway(r) ==
  /\ pc[r] = "query"
  /\ IF query_gpt_token(AIPROXY_Token).kind = "raise"
     THEN /\ Finish(r, run_except(query_gpt_token(AIPROXY_Token)))
          /\ UNCHANGED gatewayCalls
     ELSE /\ pc' = [pc EXCEPT ![r] = "gateway_wait"]
          /\ gatewayCalls' = [gatewayCalls EXCEPT ![r] = @ + 1]
          /\ UNCHANGED <<response, loop>>
  /\ UNCHANGED <<fs, AIPROXY_Token, task, query, idx, toolInvocations,
                 step, result>>

\* requests.post fails, or returns an error status, or a body that is not
\* JSON: query_gpt raises and run re-raises
GatewayFails(r) ==
  /\ pc[r] = "gateway_wait"
  /\ \E o \in GatewayFailures : Finish(r, run_except(query_gpt_reply(o)))
  /\ UNCHANGED <<fs, AIPROXY_Token, task, query, idx, gatewayCalls,
                 toolInvocations, step, result>>

\* requests.post returns a JSON body: query_gpt returns it
GatewayReplies(r) ==
  /\ pc[r] = "gateway_wait"
  /\ \E q \in Queries :
       /\ query_gpt_reply("json").kind = "return"
       /\ query' = [query EXCEPT ![r] = q]
  /\ pc' = [pc EXCEPT ![r] = "extract"]
  /\ UNCHANGED <<fs, AIPROXY_Token, task, idx, response, loop, gatewayCalls,
                 toolInvocations, step, result>>

\* tool_calls = ...; if tool_calls: ... else: return "No tool calls found."
Extract(r) ==
  /\ pc[r] = "extract"
  /\ LET e == ExtractToolCalls(query[r])
     IN IF e.error # ""
        THEN Finish(r, run_except(Raise(e.error, 0, <<>>))) /\ UNCHANGED idx
        ELSE IF e.tool_calls = <<>>
        THEN Finish(r, Return("No tool calls found.")) /\ UNCHANGED idx
        ELSE /\ pc' = [pc EXCEPT ![r] = "loop"]
             /\ idx' = [idx EXCEPT ![r] = 1]
             /\ UNCHANGED <<response, loop>>
  /\ UNCHANGED <<fs, AIPROXY_Token, task, query, gatewayCalls,
                 toolInvocations, step, result>>

\* one iteration of "for tool_call in tool_calls"
Iterate(r) ==
  /\ pc[r] = "loop"
  /\ LET tool_calls == ExtractToolCalls(query[r]).tool_calls
         b == ToolCallBody(fs, tool_calls[idx[r]])
     IN /\ fs' = b.fs
        /\ toolInvocations' = [toolInvocations EXCEPT ![r] = @ + b.invoked]
        /\ IF b.result.kind # "none"
           THEN Finish(r, run_except(b.result)) /\ UNCHANGED idx
           ELSE IF idx[r] < Len(tool_calls)
           THEN /\ idx' = [idx EXCEPT ![r] = @ + 1]
                /\ UNCHANGED <<pc, response, loop>>
           ELSE Finish(r, Return("None")) /\ UNCHANGED idx
  /\ UNCHANGED <<AIPROXY_Token, task, query, gatewayCalls, step, result>>

\* the response is sent and the request's state is dropped
Deliver(r) ==
  /\ pc[r] = "done"
  /\ pc' = [pc EXCEPT ![r] = "idle"]
  /\ task' = [task EXCEPT ![r] = <<>>]
  /\ query' = [query EXCEPT ![r] = NoQuery]
  /\ idx' = [idx EXCEPT ![r] = 0]
  /\ response' = [response EXCEPT ![r] = None]
  /\ gatewayCalls' = [gatewayCalls EXCEPT ![r] = 0]
  /\ toolInvocations' = [toolInvocations EXCEPT ![r] = 0]
  /\ UNCHANGED <<fs, AIPROXY_Token, loop, step, result>>

Next ==
  \E r \in Requests :
    \/ Arrive(r)
    \/ Begin(r)
    \/ Validate(r)
    \/ CallGateway(r)
    \/ GatewayFails(r)
    \/ GatewayReplies(r)
    \/ Extract(r)
    \/ Iterate(r)
    \/ Deliver(r)

Spec == Init /\ [][Next]_vars

TypeOK ==
  /\ loop \in 0..NumRequests
  /\ \A r \in Requests :
       pc[r] \in {"idle", "pending", "validate", "query", "gateway_wait",
                  "extract", "loop", "done"}

(***************************************************************************)
(* Properties of run                                                       *)
(***************************************************************************)
\* the reply of request r carries at least one tool call
HasToolCalls(r) ==
  /\ query[r].kind = "dict" /\ query[r].choices = "list" /\ query[r].first = "dict"
  /\ query[r].message = "dict" /\ query[r].tool_calls = "list"
  /\ query[r].items # <<>>

FirstCall(r) == query[r].items[1]

\* the first tool call names a registered tool and binds both locations
BindsLocations(r) ==
  /\ HasToolCalls(r)
  /\ FirstCall(r).function = "dict"
  /\ FirstCall(r).name \in FUNCTIONS
  /\ FirstCall(r).form = "dict"
  /\ DOMAIN FirstCall(r).args = {"input_location", "output_location"}

\* the first tool call names a file tool whose input_location does not exist
MissingInputCall(r) ==
  /\ BindsLocations(r)
  /\ FirstCall(r).name \in {"sort_contacts", "write_recent_log_lines", "count_wednesdays"}
  /\ fs[FirstCall(r).args["input_location"]].kind = "absent"

\* C1: a call of a registered file tool with an input_location that does not
\* exist ends in a 404 response and writes no file.
C1_MissingInputIs404 ==
  /\ [](\A r \in Requests :
          pc[r] = "done" /\ MissingInputCall(r) =>
            /\ response[r].kind = "raise"
            /\ response[r].cls = "HTTPException"
            /\ response[r].status = 404)
  /\ [][\A r \in Requests : pc[r] = "loop" /\ MissingInputCall(r) => fs' = fs]_vars

WhitespaceOnly(t) == \A i \in 1..Len(t) : t[i] \in {" ", "\n"}

\* C2: a request whose task is empty or only whitespace ends with the 400
\* "Task cannot be empty"; it makes no gateway call and invokes no tool.
C2_EmptyTaskRejected ==
  \A r \in Requests :
    pc[r] \notin {"idle", "pending"} /\ WhitespaceOnly(task[r]) =>
      /\ pc[r] \in {"validate", "done"}
      /\ gatewayCalls[r] = 0
      /\ toolInvocations[r] = 0
      /\ pc[r] = "done" =>
           response[r] = Raise("HTTPException", 400, <<"Task cannot be empty">>)

\* a whitespace-only task has been rejected
C2_Witness ==
  \E r \in Requests :
    /\ pc[r] = "done" /\ task[r] # <<>> /\ WhitespaceOnly(task[r])
    /\ response[r].status = 400

\* the first tool call has well-formed arguments and an unregistered name
UnknownFirstCall(r) ==
  /\ HasToolCalls(r)
  /\ FirstCall(r).function = "dict"
  /\ FirstCall(r).name \notin FUNCTIONS \cup {NoKey}
  /\ FirstCall(r).form # "malformed"

\* C3: when the first tool call has well-formed arguments and a name outside
\* FUNCTIONS, run ends with the 400 "Function not found: <name>", no tool is
\* invoked and no file changes while the request is served.
C3_UnknownToolIs400 ==
  /\ [](\A r \in Requests :
          UnknownFirstCall(r) =>
            /\ toolInvocations[r] = 0
            /\ pc[r] = "done" =>
                 response[r] = Raise("HTTPException", 400,
                                     <<"Function not found", FirstCall(r).name>>))
  /\ [][\A r \in Requests :
          pc[r] \in {"extract", "loop"} /\ UnknownFirstCall(r) => fs' = fs]_vars

\* an unregistered tool, followed by a valid call, has been refused
C3_Witness ==
  \E r \in Requests :
    /\ pc[r] = "done" /\ UnknownFirstCall(r)
    /\ Len(query[r].items) > 1
    /\ query[r].items[2].name \in FUNCTIONS
    /\ response[r].status = 400

\* a JSON object reply without any tool call
CarriesNoToolCalls(q) ==
  /\ q.kind = "dict"
  /\ \/ q.choices \in {"missing", "empty"}
     \/ /\ q.choices = "list" /\ q.first = "dict"
        /\ \/ q.message = "missing"
           \/ /\ q.message = "dict"
              /\ \/ q.tool_calls \in {"missing", "null"}
                 \/ q.tool_calls = "list" /\ q.items = <<>>

\* C4: a successful gateway reply with zero tool calls (tool_calls missing,
\* null or empty, or no choices) gives the "No tool calls found." result
\* and no tool is invoked.
C4_NoToolCallsIsNeutral ==
  \A r \in Requests :
    pc[r] = "done" /\ CarriesNoToolCalls(query[r]) =>
      /\ response[r] = Return("No tool calls found.")
      /\ toolInvocations[r] = 0

\* C5: every finished request ends in a ToolResult, the no-tool-calls
\* message, or an HTTPException with status 400, 404 or 500.
C5_OnlyStructuredOutcomes ==
  \A r \in Requests :
    pc[r] = "done" =>
      \/ response[r].kind = "return"
         /\ response[r].cls \in {"ToolResult", "No tool calls found."}
      \/ /\ response[r].kind = "raise"
         /\ response[r].cls = "HTTPException"
         /\ response[r].status \in {400, 404, 500}

\* a tool call without a name (KeyError inside run) has ended in a 500
C5_Witness ==
  \E r \in Requests :
    /\ pc[r] = "done" /\ HasToolCalls(r)
    /\ FirstCall(r).name = NoKey
    /\ response[r].status = 500

\* C6: while one request waits for the gateway, another request that has
\* arrived can start its own lifecycle.
C6_WaitingDoesNotBlockOthers ==
  \A r1, r2 \in Requests :
    r1 # r2 /\ pc[r1] = "gateway_wait" /\ pc[r2] = "pending" => ENABLED Begin(r2)

\* C7: a request makes at most one gateway call and one tool invocation;
\* only the first tool call is processed, the request ends with its result
\* or error, and a finished request is not run again.
C7_SingleCallSemantics ==
  /\ [](\A r \in Requests :
          gatewayCalls[r] <= 1 /\ toolInvocations[r] <= 1 /\ idx[r] <= 1)
  /\ [][\A r \in Requests :
          /\ pc[r] = "loop" /\ <<pc[r], idx[r]>>' # <<pc[r], idx[r]>> =>
               /\ pc'[r] = "done"
               /\ response'[r] = run_except(ToolCallBody(fs, FirstCall(r)).result)
          /\ pc[r] = "gateway_wait" => pc'[r] \in {"gateway_wait", "extract", "done"}
          /\ pc[r] = "done" => pc'[r] \in {"done", "idle"}]_vars

\* a reply with two tool calls whose first call raised inside the tool has
\* been answered
C7_Witness ==
  \E r \in Requests :
    /\ pc[r] = "done" /\ MissingInputCall(r)
    /\ Len(query[r].items) = 2
    /\ query[r].items[2].name = "count_wednesdays"
    /\ toolInvocations[r] = 1
    /\ response[r].kind = "raise"

\* C10: a registered tool changes no file other than the supplied
\* output_location.
C10_OnlySuppliedLocations ==
  [][\A r \in Requests :
       pc[r] = "loop" /\ BindsLocations(r) =>
         \A p \in Paths \ {FirstCall(r).args["output_location"]} : fs'[p] = fs[p]]_vars

====
